---- MODULE Spec2Model ----
(***************************************************************************)
(* SGA Web API (src/main.py): the agents roster kept in SQLite, the HTTP   *)
(* handlers that read and write it, and the 8-day rotation rule            *)
(* (_cycle_standard_8j, _get_decalage_standard).                           *)
(*                                                                         *)
(* Text values (Python str) are sequences of one-character strings, so     *)
(* that str.upper() and str.strip() are computed character by character.   *)
(* SQL NULL and Python None are the empty sequence.                        *)
(***************************************************************************)
EXTENDS Integers, Sequences, FiniteSets, TLC

VARIABLES
    agents,       \* table agents: rows in rowid order
    planning,     \* table planning: set of rows, PRIMARY KEY (code_agent, date)
    started,      \* TRUE once startup_event has run init_database
    call,         \* the HTTP request (or startup) served last
    response,     \* what the caller received for it
    code_groupe,  \* argument of the last rotation-rule evaluation
    jour_cycle,   \* day index (target date - DATE_AFFECTATION_BASE, in days)
    shift         \* shift symbol the rotation rule returned

dbvars == <<agents, planning, started, call, response>>
shiftvars == <<code_groupe, jour_cycle, shift>>
vars == <<agents, planning, started, call, response, code_groupe, jour_cycle, shift>>

----------------------------------------------------------------------------
(* Bounds *)

MaxJour == 17        \* day indexes range over -MaxJour .. MaxJour
MaxRows == 5         \* rows the agents table may hold
MaxCsvRows == 2      \* data rows of an uploaded CSV file

----------------------------------------------------------------------------
(* Text *)

NULL == <<>>

\* Characters used in codes and groups, in ASCII order (SQLite BINARY collation).
Chars == <<" ", "0", "1", "2", "3", "4", "5", "A", "B", "C", "D", "E", "G", "Z",
           "a", "b", "c", "d", "e", "g", "z">>

Ord(c) == CHOOSE i \in 1..Len(Chars) : Chars[i] = c

UpperChar(c) ==
    CASE c = "a" -> "A"
      [] c = "b" -> "B"
      [] c = "c" -> "C"
      [] c = "d" -> "D"
      [] c = "e" -> "E"
      [] c = "g" -> "G"
      [] c = "z" -> "Z"
      [] OTHER -> c

\* str.upper()
Upper(s) == [i \in 1..Len(s) |-> UpperChar(s[i])]

IsSpace(c) == c \in {" ", "\t", "\n", "\r"}

RECURSIVE LStrip(_)
LStrip(s) == IF s # <<>> /\ IsSpace(Head(s)) THEN LStrip(Tail(s)) ELSE s

RECURSIVE RStrip(_)
RStrip(s) ==
    IF s # <<>> /\ IsSpace(s[Len(s)]) THEN RStrip(SubSeq(s, 1, Len(s) - 1)) ELSE s

\* str.strip()
Strip(s) == RStrip(LStrip(s))

\* a < b for TEXT values, byte by byte
RECURSIVE TextLess(_, _)
TextLess(a, b) ==
    IF b = <<>> THEN FALSE
    ELSE IF a = <<>> THEN TRUE
    ELSE IF Ord(Head(a)) # Ord(Head(b)) THEN Ord(Head(a)) < Ord(Head(b))
    ELSE TextLess(Tail(a), Tail(b))

----------------------------------------------------------------------------
(* Rotation rule *)

\* Python's a % b for b > 0: the remainder of floored division
PyMod(a, b) == a - b * (a \div b)

\* Python list indexing: 0-based, a negative index counts from the end
PyIndex(list, i) ==
    IF 0 <= i /\ i < Len(list) THEN list[i + 1]
    ELSE IF -Len(list) <= i /\ i < 0 THEN list[Len(list) + i + 1]
    ELSE "IndexError"

cycle == <<"1", "1", "2", "2", "3", "3", "R", "R">>

_cycle_standard_7j(jour) == PyIndex(cycle, PyMod(jour, 7))

_cycle_standard_abs(jour) ==
    PyIndex(cycle, PyMod(IF jour < 0 THEN -jour ELSE jour, 8))

_cycle_standard_8j(jour) == PyIndex(cycle, PyMod(jour, 8))

decalages == [g \in {<<"A">>, <<"B">>, <<"C">>, <<"D">>} |->
                 CASE g = <<"A">> -> 0
                   [] g = <<"B">> -> 2
                   [] g = <<"C">> -> 4
                   [] g = <<"D">> -> 6]

\* dict.get(key, default)
DictGet(d, key, default) == IF key \in DOMAIN d THEN d[key] ELSE default

_get_decalage_by_rank(groupe) ==
    DictGet([g \in DOMAIN decalages |-> decalages[g] \div 2], Upper(groupe), 0)

_get_decalage_standard(groupe) == DictGet(decalages, Upper(groupe), 0)

----------------------------------------------------------------------------
(* Database *)

DATE_AFFECTATION_BASE == <<2025, 11, 1>>     \* "2025-11-01"

AG001 == <<"A", "G", "0", "0", "1">>
AG002 == <<"A", "G", "0", "0", "2">>
AG003 == <<"A", "G", "0", "0", "3">>
AG004 == <<"A", "G", "0", "0", "4">>
AG005 == <<"A", "G", "0", "0", "5">>

\* A row of table agents; date_sortie is NULL and statut 'actif' unless set.
AgentRow(code, nom, prenom, groupe, entree) ==
    [code |-> code, nom |-> nom, prenom |-> prenom, code_groupe |-> groupe,
     date_entree |-> entree, date_sortie |-> NULL, statut |-> "actif"]

agents_exemple ==
    << AgentRow(AG001, <<"D", "u", "p", "o", "n", "t">>, <<"J", "e", "a", "n">>,
                <<"A">>, DATE_AFFECTATION_BASE),
       AgentRow(AG002, <<"M", "a", "r", "t", "i", "n">>, <<"P", "i", "e", "r", "r", "e">>,
                <<"B">>, DATE_AFFECTATION_BASE),
       AgentRow(AG003, <<"D", "u", "r", "a", "n", "d">>, <<"M", "a", "r", "i", "e">>,
                <<"C">>, DATE_AFFECTATION_BASE) >>

\* SELECT code FROM agents WHERE code = ?  (fetchone() is not None)
SelectCode(table, code) == \E i \in 1..Len(table) : table[i].code = code

\* INSERT INTO agents: code is the PRIMARY KEY, a second row with the same
\* code raises sqlite3.IntegrityError and leaves the table as it was.
SqlInsert(table, row) ==
    IF SelectCode(table, row.code)
    THEN [ok |-> FALSE, table |-> table]
    ELSE [ok |-> TRUE, table |-> Append(table, row)]

\* UPDATE agents SET nom, prenom, code_groupe, date_sortie = NULL WHERE code = ?
SqlUpdate(table, code, nom, prenom, groupe) ==
    [i \in 1..Len(table) |->
        IF table[i].code = code
        THEN [table[i] EXCEPT !.nom = nom, !.prenom = prenom,
                              !.code_groupe = groupe, !.date_sortie = NULL]
        ELSE table[i]]

\* ORDER BY code_groupe, code
RowLess(a, b) ==
    \/ TextLess(a.code_groupe, b.code_groupe)
    \/ a.code_groupe = b.code_groupe /\ TextLess(a.code, b.code)

InsertSorted(sorted, r) ==
    LET k == Cardinality({i \in 1..Len(sorted) : RowLess(sorted[i], r)})
    IN SubSeq(sorted, 1, k) \o <<r>> \o SubSeq(sorted, k + 1, Len(sorted))

RECURSIVE OrderByGroupeCode(_)
OrderByGroupeCode(rows) ==
    IF rows = <<>> THEN <<>>
    ELSE InsertSorted(OrderByGroupeCode(Tail(rows)), Head(rows))

\* WHERE date_sortie IS NULL
IsActive(r) == r.date_sortie = NULL

----------------------------------------------------------------------------
(* HTTP outcomes *)

NoResponse == [status |-> 0, detail |-> "", body |-> <<>>]

Ok(body) == [status |-> 200, detail |-> "", body |-> body]

HTTPException(status_code, detail) ==
    [status |-> status_code, detail |-> detail, body |-> <<>>]

\* str(e) of an HTTPException: "<status>: <detail>" where the installed
\* Starlette defines __str__, the empty string where it does not.
StrHTTPException400 == {"", "400: Mois invalide (1-12)"}

----------------------------------------------------------------------------
(* Calendar *)

isleap(year) == year % 4 = 0 /\ (year % 100 # 0 \/ year % 400 = 0)

mdays == <<31, 28, 31, 30, 31, 30, 31, 31, 30, 31, 30, 31>>

\* calendar.monthrange(year, month)[1]
monthrange(year, month) ==
    mdays[month] + (IF month = 2 /\ isleap(year) THEN 1 ELSE 0)

----------------------------------------------------------------------------
(* Arguments tried *)

CodeArgs == {AG001, <<"a", "g", "0", "0", "2">>, AG004, <<"a", "g", "0", "0", "5">>}
NomArgs == {<<"N">>}
PrenomArgs == {<<"P">>}
CreateGroupArgs == {<<"a">>, <<"Z">>}
FilterArgs == {NULL, <<"b">>, <<"E">>}
MoisArgs == {0, 2, 10, 11, 12, 13}
AnneeArgs == {2024, 2025}

CsvHeader == <<<<"c", "o", "d", "e">>, <<"n", "o", "m">>, <<"p">>, <<"g">>>>

CsvRows ==
    { <<<<" ", "a", "g", "0", "0", "1", " ">>, <<"N">>, <<"P">>, <<"b">>>>,
      <<AG004, <<"N">>, <<" ", "P">>, <<"E">>, <<"x">>>>,
      <<AG004, <<"N">>, <<"P">>>>,
      <<AG005, <<"N">>, <<"P">>, <<"Z">>>> }

RECURSIVE SeqsUpTo(_, _)
SeqsUpTo(S, n) ==
    IF n = 0 THEN {<<>>}
    ELSE LET shorter == SeqsUpTo(S, n - 1)
         IN shorter \cup {Append(q, x) : q \in shorter, x \in S}

\* Uploaded files: undecodable bytes, an empty file, or a header and data rows
FileArgs ==
    {[utf8 |-> FALSE, rows |-> <<>>], [utf8 |-> TRUE, rows |-> <<>>]}
    \cup {[utf8 |-> TRUE, rows |-> <<CsvHeader>> \o d] : d \in SeqsUpTo(CsvRows, MaxCsvRows)}

----------------------------------------------------------------------------
(* Handlers *)

\* startup_event -> init_database: the tables are created if missing and the
\* example agents inserted when the agents table is empty.
init_database ==
    /\ agents' = IF Len(agents) = 0 THEN agents_exemple ELSE agents
    /\ planning' = planning
    /\ started' = TRUE
    /\ call' = [op |-> "init_database"]
    /\ response' = NoResponse
    /\ UNCHANGED shiftvars

\* GET /api/agents
get_agents(groupe, actif) ==
    /\ started
    /\ LET byStatus == IF actif THEN SelectSeq(agents, IsActive) ELSE agents
           byGroup == IF groupe # <<>>
                      THEN SelectSeq(byStatus, LAMBDA r : r.code_groupe = Upper(groupe))
                      ELSE byStatus
       IN response' = Ok(OrderByGroupeCode(byGroup))
    /\ call' = [op |-> "get_agents", groupe |-> groupe, actif |-> actif]
    /\ UNCHANGED <<agents, planning, started>>
    /\ UNCHANGED shiftvars

create_lookup_raw(code) == SelectCode(agents, code)

\* create_agent: "Vérifier si l'agent existe déjà"
create_lookup(code) == SelectCode(agents, Upper(code))

\* POST /api/agents
create_agent(code, nom, prenom, groupe) ==
    /\ started
    /\ Len(agents) < MaxRows
    /\ call' = [op |-> "create_agent", code |-> code, code_groupe |-> groupe]
    /\ IF create_lookup(code)
       THEN \* raise HTTPException(400); except HTTPException: raise
            /\ response' = HTTPException(400, "L'agent existe déjà")
            /\ agents' = agents
       ELSE LET ins == SqlInsert(agents, AgentRow(Upper(code), nom, prenom,
                                                  Upper(groupe), DATE_AFFECTATION_BASE))
            IN /\ agents' = ins.table
               /\ response' = IF ins.ok
                              THEN Ok([success |-> TRUE])
                              ELSE HTTPException(500, "UNIQUE constraint failed: agents.code")
    /\ UNCHANGED <<planning, started>>
    /\ UNCHANGED shiftvars

PlanningAgent(r) ==
    [code |-> r.code, nom |-> r.nom, prenom |-> r.prenom, groupe |-> r.code_groupe,
     nom_complet |-> r.nom \o <<" ">> \o r.prenom]

\* GET /api/planning/global/{mois}/{annee}
get_planning_global(mois, annee) ==
    /\ started
    /\ call' = [op |-> "get_planning_global", mois |-> mois, annee |-> annee]
    /\ IF ~(1 <= mois /\ mois <= 12)
       THEN \* the HTTPException(400) is raised inside the try block, whose only
            \* handler is "except Exception as e: raise HTTPException(500, str(e))"
            \E d \in StrHTTPException400 : response' = HTTPException(500, d)
       ELSE LET rows == OrderByGroupeCode(SelectSeq(agents, IsActive))
            IN response' = Ok([mois |-> mois,
                               annee |-> annee,
                               total_jours |-> monthrange(annee, mois),
                               total_agents |-> Len(rows),
                               agents |-> [i \in 1..Len(rows) |-> PlanningAgent(rows[i])]])
    /\ UNCHANGED <<agents, planning, started>>
    /\ UNCHANGED shiftvars

\* GET /api/dashboard (the "date" field, date.today(), is left out)
get_dashboard ==
    /\ started
    /\ call' = [op |-> "get_dashboard"]
    /\ LET active == SelectSeq(agents, IsActive)
           names == {active[i].code_groupe : i \in 1..Len(active)}
           groupes == [g \in names |->
                          Cardinality({i \in 1..Len(active) : active[i].code_groupe = g})]
       IN response' = Ok([total_agents |-> Len(active), agents_par_groupe |-> groupes])
    /\ UNCHANGED <<agents, planning, started>>
    /\ UNCHANGED shiftvars

\* str(x).strip() if x else ""
Field(x) == IF x # <<>> THEN Strip(x) ELSE <<>>

ImportGroups == {<<"A">>, <<"B">>, <<"C">>, <<"D">>, <<"E">>}

\* One data row of the CSV file (the body of the for loop)
ImportRow(acc, row) ==
    IF Len(row) < 4
    THEN [acc EXCEPT !.ignores = @ + 1]
    ELSE LET code == Upper(Field(row[1]))
             nom == Field(row[2])
             prenom == Field(row[3])
             groupe == Upper(Field(row[4]))
         IN IF code = <<>> \/ nom = <<>> \/ prenom = <<>> \/ groupe \notin ImportGroups
            THEN [acc EXCEPT !.ignores = @ + 1]
            ELSE IF SelectCode(acc.table, code)
            THEN [acc EXCEPT !.table = SqlUpdate(acc.table, code, nom, prenom, groupe),
                             !.importes = @ + 1]
            ELSE [acc EXCEPT !.table = SqlInsert(acc.table,
                                 AgentRow(code, nom, prenom, groupe, DATE_AFFECTATION_BASE)).table,
                             !.importes = @ + 1]

RECURSIVE ImportRows(_, _)
ImportRows(acc, rows) ==
    IF rows = <<>> THEN acc ELSE ImportRows(ImportRow(acc, Head(rows)), Tail(rows))

\* POST /api/import/csv
import_csv(file) ==
    /\ started
    /\ call' = [op |-> "import_csv", file |-> file]
    /\ IF ~file.utf8
       THEN \* contents.decode('utf-8') raises UnicodeDecodeError
            /\ response' = HTTPException(500, "'utf-8' codec can't decode")
            /\ agents' = agents
       ELSE LET data == IF file.rows = <<>> THEN <<>> ELSE Tail(file.rows)   \* index 0 skipped
                res == ImportRows([table |-> agents, importes |-> 0, ignores |-> 0], data)
            IN /\ Len(res.table) <= MaxRows
               /\ agents' = res.table
               /\ response' = Ok([importes |-> res.importes, ignores |-> res.ignores,
                                  erreurs |-> <<>>])
    /\ UNCHANGED <<planning, started>>
    /\ UNCHANGED shiftvars

----------------------------------------------------------------------------
(* Specifications of the service *)

\* no rotation-rule evaluation yet
NoShift == "-"

ShiftIdle ==
    /\ code_groupe = <<>>
    /\ jour_cycle = 0
    /\ shift = NoShift

InitDbIdle ==
    /\ agents = <<>>
    /\ planning = {}
    /\ started = FALSE
    /\ call = [op |-> "none"]
    /\ response = NoResponse

\* First deployment: no database file yet.
Init == InitDbIdle /\ ShiftIdle

Next ==
    \/ init_database
    \/ \E g \in FilterArgs, a \in BOOLEAN : get_agents(g, a)
    \/ \E c \in CodeArgs, n \in NomArgs, p \in PrenomArgs, g \in CreateGroupArgs :
           create_agent(c, n, p, g)
    \/ \E m \in MoisArgs, y \in AnneeArgs : get_planning_global(m, y)
    \/ get_dashboard
    \/ \E f \in FileArgs : import_csv(f)

Spec == Init /\ [][Next]_vars

\* A database file left by an earlier deployment: agents that have left
\* (date_sortie set) and manual overrides in table planning.
SORTIE == <<2025, 11, 15>>

ExistingAgents ==
    { [agents_exemple EXCEPT ![1].date_sortie = SORTIE],
      [agents_exemple EXCEPT ![2].date_sortie = SORTIE, ![2].code_groupe = <<"D">>] }

ExistingPlanning ==
    { {[code_agent |-> AG003, date |-> <<2025, 11, 3>>, shift |-> "C", origine |-> "MANUEL"]},
      {[code_agent |-> AG003, date |-> <<2025, 11, 3>>, shift |-> "C", origine |-> "MANUEL"],
       [code_agent |-> AG001, date |-> <<2025, 12, 1>>, shift |-> "2", origine |-> "MANUEL"]} }

InitExisting ==
    /\ agents \in ExistingAgents
    /\ planning \in ExistingPlanning
    /\ started = FALSE
    /\ call = [op |-> "none"]
    /\ response = NoResponse
    /\ ShiftIdle

SpecExisting == InitExisting /\ [][Next]_vars

----------------------------------------------------------------------------
(* Specification of the rotation rule alone *)

\* Group arguments tried: recognised codes in either case, the fifth group
\* import_csv accepts, and codes no part of the program knows.
GroupArgs == {<<"A">>, <<"B">>, <<"b">>, <<"C">>, <<"D">>, <<"E">>, <<"Z">>, <<>>}

\* resolveShift: the shift of a group on the day jour days after the anchor
resolveShift(groupe, jour) ==
    /\ code_groupe' = groupe
    /\ jour_cycle' = jour
    /\ shift' = _cycle_standard_8j(jour + _get_decalage_standard(groupe))
    /\ UNCHANGED dbvars

InitShift ==
    /\ code_groupe \in GroupArgs
    /\ jour_cycle \in -MaxJour..MaxJour
    /\ shift = NoShift
    /\ InitDbIdle

NextShift == \E g \in GroupArgs, j \in -MaxJour..MaxJour : resolveShift(g, j)

SpecShift == InitShift /\ [][NextShift]_vars

----------------------------------------------------------------------------
(* Properties of the rotation rule (checked under SpecShift) *)

ShiftSymbols == {"1", "2", "3", "R"}

Resolved == shift # NoShift

\* C1: with the cycle 1,1,2,2,3,3,R,R group A gets '1' on day index 0, '2' on
\* day index 2, 'R' on day index 6 and '1' again on day index 8, and group B
\* (offset 2) gets '2' on day index 0.
C1_Scenario ==
    Resolved =>
        /\ (code_groupe = <<"A">> /\ jour_cycle = 0 => shift = "1")
        /\ (code_groupe = <<"A">> /\ jour_cycle = 2 => shift = "2")
        /\ (code_groupe = <<"A">> /\ jour_cycle = 6 => shift = "R")
        /\ (code_groupe = <<"A">> /\ jour_cycle = 8 => shift = "1")
        /\ (code_groupe = <<"B">> /\ jour_cycle = 0 => shift = "2")

C1_Witness == code_groupe = <<"B">> /\ jour_cycle = 0 /\ shift = "2"

\* C2: for every group, resolving the anchor date and then a date a whole
\* number of 8-day periods before or after it gives the same shift.
C2_Periodic ==
    [][(/\ Resolved
        /\ jour_cycle = 0
        /\ code_groupe' = code_groupe
        /\ \E k \in -MaxJour..MaxJour : jour_cycle' = 8 * k)
       => shift' = shift]_vars

C2_Witness == code_groupe = <<"C">> /\ jour_cycle = -8 /\ shift = "3"

\* floorMod of the specification, defined without the host language's operator
FloorMod(a, n) ==
    CHOOSE r \in 0..(n - 1) : \E q \in -(MaxJour + 8)..(MaxJour + 8) : a = q * n + r

\* C3: for every rotation group the day before the anchor (day index -1)
\* resolves to cycle[floorMod(-1 + phase, 8)]: a shift symbol, never an error.
C3_PreAnchor ==
    (Resolved /\ jour_cycle = -1 /\ Upper(code_groupe) \in DOMAIN decalages) =>
        /\ shift = cycle[FloorMod(-1 + decalages[Upper(code_groupe)], 8) + 1]
        /\ shift \in ShiftSymbols

C3_Witness == code_groupe = <<"A">> /\ jour_cycle = -1 /\ shift = "R"

\* C4: resolving a shift for a group code that is not a recognised rotation
\* group fails with InvalidGroup instead of returning a shift symbol.
C4_InvalidGroup ==
    (Resolved /\ Upper(code_groupe) \notin DOMAIN decalages) => shift = "InvalidGroup"

----------------------------------------------------------------------------
(* Properties of the service *)

Served(op) == call.op = op

\* C5: a monthly planning request whose month is outside 1..12 is answered
\* with the HTTP 400 'Mois invalide (1-12)' error and returns no planning.
C5_InvalidMonth ==
    (Served("get_planning_global") /\ ~(1 <= call.mois /\ call.mois <= 12)) =>
        /\ response.status = 400
        /\ response.detail = "Mois invalide (1-12)"
        /\ response.body = <<>>

\* C6: once an agent has an exit date, no operation of the service makes
\* that agent active again (date_sortie back to NULL).
C6_OneWay ==
    [][\A i \in 1..Len(agents) : \A j \in 1..Len(agents') :
          (agents[i].date_sortie # NULL /\ agents'[j].code = agents[i].code)
              => agents'[j].date_sortie # NULL]_vars

\* ISO dates compare as their (year, month, day) triples
DateLE(a, b) ==
    \/ a[1] < b[1]
    \/ a[1] = b[1] /\ a[2] < b[2]
    \/ a[1] = b[1] /\ a[2] = b[2] /\ a[3] <= b[3]

\* the agent's membership window covers the date
Covers(r, d) ==
    /\ DateLE(r.date_entree, d)
    /\ r.date_sortie = NULL \/ ~DateLE(r.date_sortie, d)

\* C7: the monthly projection covers exactly the (agent, day) pairs whose
\* membership window covers the day, one entry each: an agent whose entry date
\* is after a day of the month contributes nothing for that day.
C7_MembershipWindow ==
    (Served("get_planning_global") /\ response.status = 200) =>
        LET body == response.body
            days == 1..monthrange(body.annee, body.mois)
            projected == {<<body.agents[i].code, j>> :
                             i \in 1..Len(body.agents), j \in 1..body.total_jours}
            covered == {p \in {<<agents[i].code, j>> : i \in 1..Len(agents), j \in days} :
                           \E i \in 1..Len(agents) :
                               /\ agents[i].code = p[1]
                               /\ Covers(agents[i], <<body.annee, body.mois, p[2]>>)}
        IN /\ projected = covered
           /\ body.total_jours * Len(body.agents) = Cardinality(covered)

\* C8: whenever table planning holds an override for an agent of the projection
\* and a date of the requested month, the projection carries an entry for that
\* agent and date whose shift is the override's.
C8_OverrideWins ==
    (Served("get_planning_global") /\ response.status = 200) =>
        \A o \in planning :
            (/\ o.date[1] = response.body.annee
             /\ o.date[2] = response.body.mois
             /\ \E i \in 1..Len(agents) :
                    agents[i].code = o.code_agent /\ IsActive(agents[i]))
            => \E i \in 1..Len(response.body.agents) :
                   LET e == response.body.agents[i]
                   IN /\ e.code = o.code_agent
                      /\ {"date", "shift"} \subseteq DOMAIN e
                      /\ e.date = o.date
                      /\ e.shift = o.shift

CodesUnique ==
    \A i, j \in 1..Len(agents) :
        i # j => Upper(agents[i].code) # Upper(agents[j].code)

CreateDuplicateRejected ==
    (/\ call'.op = "create_agent"
     /\ \E i \in 1..Len(agents) : Upper(agents[i].code) = Upper(call'.code))
    => response'.status = 400 /\ agents' = agents

ImportUpdatesInPlace ==
    call'.op = "import_csv" =>
        /\ Len(agents') >= Len(agents)
        /\ \A i \in 1..Len(agents) : agents'[i].code = agents[i].code

\* C9: agent codes stay unique, compared case-insensitively, after any
\* sequence of create_agent and import_csv calls: create_agent with a code that
\* exists fails with HTTP 400 and leaves the table unchanged, and import_csv
\* with an existing code updates that row instead of adding a second one.
C9_UniqueCodes ==
    /\ []CodesUnique
    /\ [][CreateDuplicateRejected /\ ImportUpdatesInPlace]_vars

C9_Witness ==
    /\ Served("create_agent")
    /\ call.code = <<"a", "g", "0", "0", "2">>
    /\ response.status = 400
    /\ \E i \in 1..Len(agents) :
           agents[i].code = AG001 /\ agents[i].nom = <<"N">> /\ agents[i].code_groupe = <<"B">>

\* C10: every stored agent's code_groupe is a rotation group with a defined
\* phase offset (A, B, C or D).
C10_GroupsHaveOffset ==
    \A i \in 1..Len(agents) : agents[i].code_groupe \in DOMAIN decalages

====
